---- MODULE Spec2Model ----
(***************************************************************************)
(* Body temperature model of src/src/bodytemp.cpp (class BodyTemperature). *)
(*                                                                         *)
(* The state is the array `bodyparts` of per-part temperature records.     *)
(* Each member function of the class is one action.  History variables     *)
(* record the last call, its arguments, the array before it and the calls  *)
(* of equalize_single_part it made, so that the contract of a call can be  *)
(* stated as a state predicate.  The calendar of src/src/calendar.cpp is   *)
(* modelled next to it, with its own specification.                        *)
(***************************************************************************)
EXTENDS Integers, FiniteSets, Sequences, TLC

(***************************************************************************)
(* Bounds of the model.                                                    *)
(***************************************************************************)
\* Temperatures held by an unset field are drawn from 0, 5000, ..., 5000 * MaxTempIdx.
MaxTempIdx == 3
\* add_bonus_fire_warmth is called with fire_intensity in 0..FireMax.
FireMax == 5
\* Number of member function calls in one behaviour.
MaxCalls == 2
\* Number of simulator ticks in one behaviour.
MaxTicks == 2
\* The world option SEASON_LENGTH is drawn from 0..MaxSeasonLength.
MaxSeasonLength == 4
\* A calendar is constructed with Year in 0..MaxYear.
MaxYear == 1

(***************************************************************************)
(* enum body_part (bodypart.h), the eleven parts the functions name.       *)
(***************************************************************************)
CoreParts == {"bp_head", "bp_torso", "bp_mouth", "bp_leg_l", "bp_leg_r"}
Arms      == {"bp_arm_l", "bp_arm_r"}
Hands     == {"bp_hand_l", "bp_hand_r"}
Feet      == {"bp_foot_l", "bp_foot_r"}
BodyPart  == CoreParts \cup Arms \cup Hands \cup Feet

TempDomain == {k * 5000 : k \in 0..MaxTempIdx}
FireIntensities == 0..FireMax

VARIABLES
    bodyparts,  \* std::array<BodyPartModel, num_bp> bodyparts
    last,       \* the last member function called, with its arguments
    prev,       \* bodyparts as it was when that call started
    calls,      \* number of calls made so far
    transfers,  \* the <<sink, source>> of each equalize_single_part call the last call made
    first,      \* bodyparts as it was before the current run of equalize calls
    tick,       \* position of the simulator in its tick
    cal,        \* a calendar object: turn_number, second, minute, hour, day, season, year
    calargs,    \* the arguments the calendar was constructed from
    options,    \* world options SEASON_LENGTH and ETERNAL_SEASON
    initial_season  \* calendar::initial_season

vars == <<bodyparts, last, prev, calls, transfers, first, tick,
          cal, calargs, options, initial_season>>

\* struct BodyPartTemperatures
BodyPartTemperatures ==
    [current : Int, converging : Int, bonus : Int, frostbite_counter : Int]

Abs(x) == IF x < 0 THEN -x ELSE x
Max(x, y) == IF x < y THEN y ELSE x

(***************************************************************************)
(* add_bonus_fire_warmth                                                   *)
(***************************************************************************)
CoreBonusLinear(fire_intensity) == fire_intensity * 150

\* const int core_bonus = fire_intensity * fire_intensity * 150;
CoreBonus(fire_intensity) == fire_intensity * fire_intensity * 150

ArmBonusTypo(fire_intensity) == fire_intensity * 60

\* const int arm_bonus = fire_intensity * 600;
ArmBonus(fire_intensity) == fire_intensity * 600

\* const int hand_bonus = fire_intensity * 1500;
HandBonus(fire_intensity) == fire_intensity * 1500

\* const int foot_bonus = fire_intensity * ( is_sitting ? 1000 : 300 );
FootBonus(fire_intensity, is_sitting) ==
    fire_intensity * (IF is_sitting THEN 1000 ELSE 300)

\* The amount the function adds to bonus_warmth of part p.  foot_bonus is
\* computed (line 131) and never read: both feet are given hand_bonus.
FireBonus(p, fire_intensity, is_sitting) ==
    LET core_bonus == CoreBonus(fire_intensity)
        arm_bonus  == ArmBonus(fire_intensity)
        hand_bonus == HandBonus(fire_intensity)
        foot_bonus == FootBonus(fire_intensity, is_sitting)
    IN  CASE p \in CoreParts -> core_bonus
          [] p \in Arms      -> arm_bonus
          [] p \in Hands     -> hand_bonus
          [] p \in Feet      -> hand_bonus

\* bodyparts[...].bonus_warmth += ...;  for each of the eleven parts
AddFire(bp, fire_intensity, is_sitting) ==
    [p \in BodyPart |->
        [bp[p] EXCEPT !.bonus = @ + FireBonus(p, fire_intensity, is_sitting)]]

(***************************************************************************)
(* apply_bonus_warmth: the body is "// TODO", the call changes nothing.    *)
(***************************************************************************)
ApplyBonusUncapped(bp) ==
    [p \in BodyPart |-> [bp[p] EXCEPT !.current = @ + bp[p].bonus]]

ApplyBonus(bp) == bp

(***************************************************************************)
(* set_to_normal: a loop over the parts with an empty body.                *)
(***************************************************************************)
SetNormal(bp) == bp

(***************************************************************************)
(* equalize_single_part                                                    *)
(***************************************************************************)
\* The least power of two that is >= n, for n in 1..64.
NextPow2(n) ==
    CASE n <= 1  -> 1
      [] n <= 2  -> 2
      [] n <= 4  -> 4
      [] n <= 8  -> 8
      [] n <= 16 -> 16
      [] n <= 32 -> 32
      [] OTHER   -> 64

\* int( d * equalization_factor ) for 0 <= d < 2^17, with the float
\* equalization_factor = 0.0001f = 13743895 * 2^-37 (13743895 = 3355 * 4096
\* + 1815).  The product d * 13743895 is kept in two limbs: H counts units of
\* 2^-25.  The float product is the exact product rounded to the nearest
\* float (24 bit significand, ties to even); the conversion to int then drops
\* the fraction.  The exact product lies in [k, k+1); it rounds up to k+1
\* exactly when it is within half a unit in the last place below k+1.
MulFactorToInt(d) ==
    LET H == d * 3355 + ((d * 1815) \div 4096)
        k == H \div 33554432
        R == (k + 1) * 33554432 - H
    IN  IF R <= NextPow2(k + 1) THEN k + 1 ELSE k

FlowFloor(diff) == diff \div 10000

FlowOvershoot(diff) == 2 * diff

\* int flow = int( diff * equalization_factor );
\* The float product and the conversion are symmetric in the sign of diff.
Flow(diff) == IF diff < 0 THEN -MulFactorToInt(-diff) ELSE MulFactorToInt(diff)

EqualizeSingleExchange(bp, sink, source) ==
    LET diff == bp[source].current - bp[sink].current
    IN  [bp EXCEPT ![sink].current = @ + Flow(diff),
                   ![source].current = @ - Flow(diff)]

\* int diff = bodyparts[source].current - bodyparts[sink].current;
\* bodyparts[sink].current += flow;
EqualizeSingle(bp, sink, source) ==
    LET diff == bp[source].current - bp[sink].current
        flow == Flow(diff)
    IN  [bp EXCEPT ![sink].current = @ + flow]

EqualizeCallsMouthTwice ==
    << <<"bp_torso", "bp_arm_l">>, <<"bp_torso", "bp_arm_r">>,
       <<"bp_torso", "bp_leg_l">>, <<"bp_torso", "bp_leg_r">>,
       <<"bp_torso", "bp_head">>,
       <<"bp_head", "bp_torso">>,
       <<"bp_arm_l", "bp_torso">>, <<"bp_arm_r", "bp_torso">>,
       <<"bp_leg_l", "bp_torso">>, <<"bp_leg_r", "bp_torso">>,
       <<"bp_arm_l", "bp_hand_l">>, <<"bp_arm_r", "bp_hand_r">>,
       <<"bp_leg_l", "bp_foot_l">>, <<"bp_leg_r", "bp_foot_r">>,
       <<"bp_hand_l", "bp_arm_l">>, <<"bp_hand_r", "bp_arm_r">>,
       <<"bp_foot_l", "bp_leg_l">>, <<"bp_foot_r", "bp_leg_r">>,
       <<"bp_mouth", "bp_head">>, <<"bp_mouth", "bp_head">> >>

\* The calls of equalize_all_parts, in order, as <<sink, source>>.
EqualizeCalls ==
    << <<"bp_torso", "bp_arm_l">>, <<"bp_torso", "bp_arm_r">>,
       <<"bp_torso", "bp_leg_l">>, <<"bp_torso", "bp_leg_r">>,
       <<"bp_torso", "bp_head">>,
       <<"bp_head", "bp_torso">>,
       <<"bp_arm_l", "bp_torso">>, <<"bp_arm_r", "bp_torso">>,
       <<"bp_leg_l", "bp_torso">>, <<"bp_leg_r", "bp_torso">>,
       <<"bp_arm_l", "bp_hand_l">>, <<"bp_arm_r", "bp_hand_r">>,
       <<"bp_leg_l", "bp_foot_l">>, <<"bp_leg_r", "bp_foot_r">>,
       <<"bp_hand_l", "bp_arm_l">>, <<"bp_hand_r", "bp_arm_r">>,
       <<"bp_foot_l", "bp_leg_l">>, <<"bp_foot_r", "bp_leg_r">>,
       <<"bp_mouth", "bp_head">>, <<"bp_head", "bp_mouth">> >>

\* The <<sink, source>> pairs equalize_single_part is called with.
AdjacentPairs == {EqualizeCalls[i] : i \in 1..Len(EqualizeCalls)}

RECURSIVE EqualizeFrom(_, _)
\* bp after the calls i, i+1, ... of equalize_all_parts
EqualizeFrom(bp, i) ==
    IF i > Len(EqualizeCalls) THEN bp
    ELSE EqualizeFrom(EqualizeSingle(bp, EqualizeCalls[i][1], EqualizeCalls[i][2]),
                      i + 1)

EqualizeAll(bp) == EqualizeFrom(bp, 1)

(***************************************************************************)
(* update_temperatures                                                     *)
(***************************************************************************)
\* Parts the loop does not skip: current != converging.
Unconverged(bp) == {p \in BodyPart : bp[p].current # bp[p].converging}

\* The statement that assigns current (line 150) is cut off in the middle of
\* its expression, and the `diff` it names is declared nowhere: the source
\* does not determine the value stored, and any int is a possible outcome.
\* The model draws one value from TempDomain in a call and stores it in every
\* part the loop does not skip.
UpdateOutcomes(bp) ==
    {[p \in BodyPart |->
        IF p \in Unconverged(bp) THEN [bp[p] EXCEPT !.current = v] ELSE bp[p]] :
     v \in TempDomain}

\* bp after the first n calls of equalize_all_parts
RECURSIVE EqualizeFirst(_, _)
EqualizeFirst(bp, n) ==
    IF n = 0 THEN bp
    ELSE EqualizeSingle(EqualizeFirst(bp, n - 1),
                        EqualizeCalls[n][1], EqualizeCalls[n][2])

(***************************************************************************)
(* The simulator's tick.  The class declares the three phase functions     *)
(* and no function that calls them; the tick is taken from the design      *)
(* document: bonus warmth reset and reapply, then equalization, then       *)
(* convergence, once each per tick.                                        *)
(***************************************************************************)
Phases == <<"bonus", "equalize", "converge">>

NextPhaseSwapped(phase) ==
    CASE phase = "bonus"    -> "converge"
      [] phase = "converge" -> "equalize"
      [] phase = "equalize" -> "bonus"

\* The phase that runs after `phase`.
NextPhase(phase) ==
    CASE phase = "bonus"    -> "equalize"
      [] phase = "equalize" -> "converge"
      [] phase = "converge" -> "bonus"

\* bonus is reset to zero at the start of each tick
ResetBonus(bp) == [p \in BodyPart |-> [bp[p] EXCEPT !.bonus = 0]]

IdleTick == [phase |-> "bonus", count |-> 0, log |-> <<>>]

(***************************************************************************)
(* calendar (src/src/calendar.cpp).  Seasons are the values of season_type *)
(* SPRING = 0 .. WINTER = 3.  A turn is six seconds.                       *)
(***************************************************************************)
Seasons == 0..3

\* MINUTES( n ), HOURS( n ), DAYS( n ): turns in n minutes, hours, days
Minutes(n) == n * 10
Hours(n) == n * 600
Days(n) == n * 14400

\* calendar::season_length(): std::max( get_world_option<int>( s ), 1 )
SeasonLength(opts) == Max(opts.SEASON_LENGTH, 1)

\* year_turns(): the turns of four seasons
YearTurns(opts) == Days(SeasonLength(opts) * 4)

\* turn_number as the constructor calendar(Minute, Hour, Day, Season, Year)
\* computes it; the season term is Season * season_length().
TurnNumber(opts, Minute, Hour, Day, Season, Year) ==
    Minutes(Minute) + Hours(Hour) + Days(Day) + Season * SeasonLength(opts)
        + Year * YearTurns(opts)

\* calendar::sync() on an object whose turn_number is set
Sync(opts, ini_season, turn_number) ==
    LET sl == SeasonLength(opts)
    IN  [turn_number |-> turn_number,
         year   |-> turn_number \div Days(sl * 4),
         season |-> IF opts.ETERNAL_SEASON THEN ini_season
                    ELSE (turn_number \div Days(sl)) % 4,
         day    |-> (turn_number \div Days(1)) % sl,
         hour   |-> (turn_number \div Hours(1)) % 24,
         minute |-> (turn_number \div Minutes(1)) % 60,
         second |-> (turn_number * 6) % 60]

\* calendar::calendar()
DefaultCalendar ==
    [turn_number |-> 0, second |-> 0, minute |-> 0, hour |-> 0, day |-> 0,
     season |-> 0, year |-> 0]

NoArgs == [Minute |-> 0, Hour |-> 0, Day |-> 0, Season |-> 0, Year |-> 0,
           constructed |-> FALSE]

(***************************************************************************)
(* Initial state.  The class has no constructor: the array is zero when    *)
(* the object has static storage and holds whatever was in memory          *)
(* otherwise.  The model starts from the zeroed array with one part whose  *)
(* four fields are unset; Unset is a sample of what they may hold, with    *)
(* current below and above converging and bonus and frostbite_counter zero *)
(* and non-zero.                                                           *)
(***************************************************************************)
Zeroed == [current |-> 0, converging |-> 0, bonus |-> 0, frostbite_counter |-> 0]

Unset ==
    {[current |-> 5000 * k, converging |-> 5000 * (MaxTempIdx - k),
      bonus |-> 500 * k, frostbite_counter |-> k] : k \in 0..MaxTempIdx}

NoCall == [op |-> "none", fire_intensity |-> 0, is_sitting |-> FALSE,
           sink |-> "none", source |-> "none"]

\* No call made yet, no tick started.
InitHistory ==
    /\ prev = bodyparts
    /\ last = NoCall
    /\ calls = 0
    /\ transfers = <<>>
    /\ first = bodyparts
    /\ tick = IdleTick

\* A default constructed calendar in a world with the default options.
InitDefaultCalendar ==
    /\ cal = DefaultCalendar
    /\ calargs = NoArgs
    /\ options = [SEASON_LENGTH |-> 1, ETERNAL_SEASON |-> FALSE]
    /\ initial_season = 0

Init ==
    /\ \E a \in BodyPart, u \in Unset :
          bodyparts = [p \in BodyPart |-> IF p = a THEN u ELSE Zeroed]
    /\ InitHistory
    /\ InitDefaultCalendar

\* The history of a call.
Called(op, fire_intensity, is_sitting, sink, source) ==
    /\ prev' = bodyparts
    /\ last' = [op |-> op, fire_intensity |-> fire_intensity,
                is_sitting |-> is_sitting, sink |-> sink, source |-> source]

Counted ==
    /\ calls < MaxCalls
    /\ calls' = calls + 1

CalendarUnchanged == UNCHANGED <<cal, calargs, options, initial_season>>

\* A call that is not an equalize call ends the run of equalize calls.
NotEqualizing ==
    /\ transfers' = <<>>
    /\ first' = bodyparts'
    /\ CalendarUnchanged

\* An equalize call: the calls of equalize_single_part it makes.
Equalizing(made) ==
    /\ transfers' = made
    /\ UNCHANGED first
    /\ CalendarUnchanged

(***************************************************************************)
(* Actions: one per member function.                                       *)
(***************************************************************************)
SetToNormal ==
    /\ Counted
    /\ bodyparts' = SetNormal(bodyparts)
    /\ Called("set_to_normal", 0, FALSE, "none", "none")
    /\ NotEqualizing
    /\ UNCHANGED tick

AddBonusFireWarmth ==
    /\ Counted
    /\ \E fire_intensity \in FireIntensities, is_sitting \in BOOLEAN :
          /\ bodyparts' = AddFire(bodyparts, fire_intensity, is_sitting)
          /\ Called("add_bonus_fire_warmth", fire_intensity, is_sitting, "none", "none")
    /\ NotEqualizing
    /\ UNCHANGED tick

ApplyBonusWarmth ==
    /\ Counted
    /\ bodyparts' = ApplyBonus(bodyparts)
    /\ Called("apply_bonus_warmth", 0, FALSE, "none", "none")
    /\ NotEqualizing
    /\ UNCHANGED tick

DoUpdateTemperatures ==
    /\ bodyparts' \in UpdateOutcomes(bodyparts)
    /\ Called("update_temperatures", 0, FALSE, "none", "none")
    /\ NotEqualizing

UpdateTemperatures ==
    /\ Counted
    /\ DoUpdateTemperatures
    /\ UNCHANGED tick

EqualizeSinglePart ==
    /\ Counted
    /\ \E pair \in AdjacentPairs :
          /\ bodyparts' = EqualizeSingle(bodyparts, pair[1], pair[2])
          /\ Called("equalize_single_part", 0, FALSE, pair[1], pair[2])
          /\ Equalizing(<<pair>>)
    /\ UNCHANGED tick

DoEqualizeAllParts ==
    /\ bodyparts' = EqualizeAll(bodyparts)
    /\ Called("equalize_all_parts", 0, FALSE, "none", "none")
    /\ Equalizing(EqualizeCalls)

EqualizeAllParts ==
    /\ Counted
    /\ DoEqualizeAllParts
    /\ UNCHANGED tick

Next ==
    \/ SetToNormal
    \/ AddBonusFireWarmth
    \/ ApplyBonusWarmth
    \/ UpdateTemperatures
    \/ EqualizeSinglePart
    \/ EqualizeAllParts

Spec == Init /\ [][Next]_vars

(***************************************************************************)
(* update_temperatures called again and again, with nothing else touching  *)
(* the array: the calls are not counted, and a call that can change the    *)
(* state is eventually made.                                               *)
(***************************************************************************)
UpdateTemperaturesAgain ==
    /\ DoUpdateTemperatures
    /\ UNCHANGED <<calls, tick>>

SpecConverge ==
    Init /\ [][UpdateTemperaturesAgain]_vars /\ WF_vars(UpdateTemperaturesAgain)

\* equalize_all_parts called again and again with no other operation in
\* between, as often as the caller likes.
EqualizeAllPartsAgain == DoEqualizeAllParts /\ UNCHANGED <<calls, tick>>

SpecEqualize == Init /\ [][EqualizeAllPartsAgain]_vars

(***************************************************************************)
(* The tick of the simulator, from the design document: each phase is one  *)
(* step, the phase that has run names the next one.  The phases call the   *)
(* member functions modelled above.                                        *)
(***************************************************************************)
\* The phase `ran` has run: the next phase, the ticks completed, and the
\* phases run so far in the tick under way.
Advance(ran) ==
    tick' = [phase |-> NextPhase(ran),
             count |-> IF NextPhase(ran) = "bonus" THEN tick.count + 1 ELSE tick.count,
             log   |-> IF Len(tick.log) = Len(Phases) THEN <<ran>>
                       ELSE Append(tick.log, ran)]

\* Phase 1: the bonus is reset, the fire bonus of this tick is added and
\* apply_bonus_warmth applies it.
TickBonus ==
    /\ tick.phase = "bonus"
    /\ tick.count < MaxTicks
    /\ \E fire_intensity \in FireIntensities, is_sitting \in BOOLEAN :
          /\ bodyparts' =
                ApplyBonus(AddFire(ResetBonus(bodyparts), fire_intensity, is_sitting))
          /\ Called("tick_bonus", fire_intensity, is_sitting, "none", "none")
    /\ NotEqualizing
    /\ Advance("bonus")
    /\ UNCHANGED calls

\* Phase 2: equalize_all_parts
TickEqualize ==
    /\ tick.phase = "equalize"
    /\ bodyparts' = EqualizeAll(bodyparts)
    /\ Called("tick_equalize", 0, FALSE, "none", "none")
    /\ Equalizing(EqualizeCalls)
    /\ Advance("equalize")
    /\ UNCHANGED calls

\* Phase 3: update_temperatures
TickConverge ==
    /\ tick.phase = "converge"
    /\ bodyparts' \in UpdateOutcomes(bodyparts)
    /\ Called("tick_converge", 0, FALSE, "none", "none")
    /\ NotEqualizing
    /\ Advance("converge")
    /\ UNCHANGED calls

NextTick ==
    \/ TickBonus
    \/ TickEqualize
    \/ TickConverge

\* The character whose torso holds the unset record.
InitTick ==
    /\ Init
    /\ \A p \in BodyPart \ {"bp_torso"} : bodyparts[p] = Zeroed

SpecTick == InitTick /\ [][NextTick]_vars

(***************************************************************************)
(* The calendar: a world with its options, in which one calendar is built  *)
(* from its components.                                                    *)
(***************************************************************************)
\* The world options "SEASON_LENGTH" and "ETERNAL_SEASON" and the season the
\* world started in; the calendar is the default one.
InitCalendar ==
    /\ bodyparts = [p \in BodyPart |-> Zeroed]
    /\ InitHistory
    /\ cal = DefaultCalendar
    /\ calargs = NoArgs
    /\ \E sl \in 0..MaxSeasonLength, eternal \in BOOLEAN :
          options = [SEASON_LENGTH |-> sl, ETERNAL_SEASON |-> eternal]
    /\ initial_season \in Seasons
    /\ ~options.ETERNAL_SEASON => initial_season = 0

\* calendar::calendar( Minute, Hour, Day, Season, Year ) { turn_number = ...; sync(); }
CalendarFromComponents ==
    /\ ~calargs.constructed
    /\ \E Minute \in 0..59, Hour \in 0..23, Day \in 0..(SeasonLength(options) - 1),
          Season \in Seasons, Year \in 0..MaxYear :
          /\ cal' = Sync(options, initial_season,
                         TurnNumber(options, Minute, Hour, Day, Season, Year))
          /\ calargs' = [Minute |-> Minute, Hour |-> Hour, Day |-> Day,
                         Season |-> Season, Year |-> Year, constructed |-> TRUE]
    /\ UNCHANGED <<bodyparts, last, prev, calls, transfers, first, tick,
                   options, initial_season>>

SpecCalendar == InitCalendar /\ [][CalendarFromComponents]_vars

TypeOK ==
    /\ bodyparts \in [BodyPart -> BodyPartTemperatures]
    /\ prev \in [BodyPart -> BodyPartTemperatures]
    /\ calls \in 0..MaxCalls

(***************************************************************************)
(* Properties.                                                             *)
(***************************************************************************)
AfterCall(op) == last.op = op

\* What the last call added to the bonus of part p.
AddedBonus(p) == bodyparts[p].bonus - prev[p].bonus

\* C1: one call add_bonus_fire_warmth(fire_intensity, is_sitting) adds
\* fire_intensity * 1000 to the bonus of each foot when is_sitting, and
\* fire_intensity * 300 when not.
C1_FeetGetFootBonus ==
    AfterCall("add_bonus_fire_warmth") =>
        \A f \in Feet :
            AddedBonus(f) =
                last.fire_intensity * (IF last.is_sitting THEN 1000 ELSE 300)

\* C2: one call add_bonus_fire_warmth adds fire_intensity^2 * 150 to the bonus
\* of head, torso, mouth and both legs, fire_intensity * 600 to each arm and
\* fire_intensity * 1500 to each hand, on top of the bonus held before.
C2_CoreArmHandBonus ==
    AfterCall("add_bonus_fire_warmth") =>
        /\ \A p \in CoreParts :
              bodyparts[p].bonus =
                  prev[p].bonus + last.fire_intensity * last.fire_intensity * 150
        /\ \A p \in Arms :
              bodyparts[p].bonus = prev[p].bonus + last.fire_intensity * 600
        /\ \A p \in Hands :
              bodyparts[p].bonus = prev[p].bonus + last.fire_intensity * 1500

\* C2 witness: a call with fire_intensity 2 on a hand that already held a
\* bonus, and on a torso that held one.
C2_Witness ==
    /\ AfterCall("add_bonus_fire_warmth")
    /\ last.fire_intensity = 2
    /\ \E h \in Hands : prev[h].bonus > 0 /\ bodyparts[h].bonus = prev[h].bonus + 3000
    /\ bodyparts["bp_torso"].bonus = prev["bp_torso"].bonus + 600

\* C3: the bonus a part holds after add_bonus_fire_warmth is only the
\* contribution of that call, never a sum with what the part held before.
C3_BonusIsFresh ==
    AfterCall("add_bonus_fire_warmth") =>
        \A p \in BodyPart :
            bodyparts[p].bonus = FireBonus(p, last.fire_intensity, last.is_sitting)

PrevDiff == prev[last.source].current - prev[last.sink].current

\* x / 10000 rounded toward zero
TowardZero(x) == IF x < 0 THEN -((-x) \div 10000) ELSE x \div 10000

C6_OnlySinkCurrent ==
    AfterCall("equalize_single_part") =>
        /\ \A p \in BodyPart \ {last.sink} : bodyparts[p] = prev[p]
        /\ bodyparts[last.sink] =
              [prev[last.sink] EXCEPT !.current = bodyparts[last.sink].current]

\* C6 witness: a call that moved heat into the sink from a source that holds a
\* bonus and a frostbite count.
C6_Witness ==
    /\ AfterCall("equalize_single_part")
    /\ bodyparts[last.sink].current > prev[last.sink].current
    /\ prev[last.source].bonus > 0
    /\ prev[last.source].frostbite_counter > 0

\* C7: update_temperatures brings every part strictly closer to converging
\* when it was away from it, keeps it there when it was there, and never
\* takes it past converging.
C7_StepsCloser ==
    AfterCall("update_temperatures") =>
        \A p \in BodyPart :
            LET before == prev[p].converging - prev[p].current
                after  == bodyparts[p].converging - bodyparts[p].current
            IN  /\ before = 0 => after = 0
                /\ before # 0 => Abs(after) < Abs(before)
                /\ before > 0 => after >= 0
                /\ before < 0 => after <= 0

Converged == \A p \in BodyPart : bodyparts[p].current = bodyparts[p].converging

\* C8: with update_temperatures the only operation, every part's current
\* reaches converging after finitely many calls and stays there.
C8_ReachesConverging == <>[]Converged

\* C9: after set_to_normal every part has current = converging = the one
\* baseline temperature, bonus = 0 and frostbite_counter = 0, and a second
\* call changes nothing.
C9_AllNormal ==
    AfterCall("set_to_normal") =>
        /\ \A p \in BodyPart :
              /\ bodyparts[p].current = bodyparts[p].converging
              /\ bodyparts[p].bonus = 0
              /\ bodyparts[p].frostbite_counter = 0
        /\ \A p, q \in BodyPart : bodyparts[p].current = bodyparts[q].current
        /\ SetNormal(bodyparts) = bodyparts

\* What the last add_bonus_fire_warmth would have added to part p had it been
\* called with the other value of is_sitting.
AddedOtherwise(p) ==
    AddFire(prev, last.fire_intensity, ~last.is_sitting)[p].bonus - prev[p].bonus

FeetSittingAtLeastStanding ==
    \A f \in Feet :
        IF last.is_sitting THEN AddedBonus(f) >= AddedOtherwise(f)
        ELSE AddedOtherwise(f) >= AddedBonus(f)

Edges ==
    { <<"bp_torso", "bp_arm_l">>, <<"bp_torso", "bp_arm_r">>,
      <<"bp_torso", "bp_leg_l">>, <<"bp_torso", "bp_leg_r">>,
      <<"bp_torso", "bp_head">>, <<"bp_head", "bp_mouth">>,
      <<"bp_arm_l", "bp_hand_l">>, <<"bp_arm_r", "bp_hand_r">>,
      <<"bp_leg_l", "bp_foot_l">>, <<"bp_leg_r", "bp_foot_r">> }

\* How many of the recorded transfers are <<sink, source>>.
TransfersOf(sink, source) ==
    Cardinality({i \in 1..Len(transfers) : transfers[i] = <<sink, source>>})

\* bp after the transfers of seq, made one after the other
RECURSIVE Perform(_, _)
Perform(bp, seq) ==
    IF seq = <<>> THEN bp
    ELSE Perform(EqualizeSingle(bp, Head(seq)[1], Head(seq)[2]), Tail(seq))

\* C11: one call to equalize_all_parts makes exactly 20 one-way transfers: one
\* in each direction for each of the ten edges, none between other parts; and
\* the state it leaves is the one these transfers produce.
C11_TwentyTransfers ==
    AfterCall("equalize_all_parts") =>
        /\ Len(transfers) = 20
        /\ \A e \in Edges :
              /\ TransfersOf(e[1], e[2]) = 1
              /\ TransfersOf(e[2], e[1]) = 1
        /\ \A i \in 1..Len(transfers) :
              \/ transfers[i] \in Edges
              \/ <<transfers[i][2], transfers[i][1]>> \in Edges
        /\ bodyparts = Perform(prev, transfers)

\* C11 witness: a call of equalize_all_parts that moved heat both into and
\* out of the torso.
C11_Witness ==
    /\ AfterCall("equalize_all_parts")
    /\ Len(transfers) = 20
    /\ bodyparts["bp_torso"].current # prev["bp_torso"].current
    /\ \E p \in BodyPart \ {"bp_torso"} : bodyparts[p].current > prev[p].current

\* C12: in every tick the three phases run once each, in the order bonus
\* warmth, equalization, convergence: what has run in the tick under way is a
\* prefix of that order, the phase to run next is the one that follows it, and
\* a completed tick has run all three.
C12_PhasesInOrder ==
    /\ \E n \in 0..Len(Phases) : tick.log = SubSeq(Phases, 1, n)
    /\ Len(tick.log) < Len(Phases) => tick.phase = Phases[Len(tick.log) + 1]
    /\ (tick.count > 0 /\ tick.phase = "bonus") => tick.log = Phases
    /\ AfterCall("tick_equalize") => tick.log = <<"bonus", "equalize">>
    /\ AfterCall("tick_converge") => tick.log = Phases

\* C12 witness: the second tick has completed, its convergence phase last.
C12_Witness ==
    /\ tick.count = 2
    /\ tick.log = Phases
    /\ AfterCall("tick_converge")
    /\ bodyparts # prev

MinCurrent(bp) ==
    CHOOSE m \in {bp[p].current : p \in BodyPart} :
        \A p \in BodyPart : m <= bp[p].current

MaxCurrent(bp) ==
    CHOOSE m \in {bp[p].current : p \in BodyPart} :
        \A p \in BodyPart : bp[p].current <= m

\* `x` lies between `a` and `b` inclusive, whichever of the two is larger.
Between(x, a, b) ==
    \/ a <= x /\ x <= b
    \/ b <= x /\ x <= a

\* The n-th equalize_single_part call of the last equalize_all_parts left the
\* sink's current between the sink's and the source's current before it.
NoOvershoot(n) ==
    LET before == EqualizeFirst(prev, n - 1)
        after  == EqualizeSingle(before, EqualizeCalls[n][1], EqualizeCalls[n][2])
        sink   == EqualizeCalls[n][1]
        source == EqualizeCalls[n][2]
    IN  Between(after[sink].current, before[sink].current, before[source].current)

\* C13: equalization never overshoots or amplifies: every
\* equalize_single_part call leaves the sink's current between the old
\* currents of sink and source inclusive, and after any number of
\* equalize_all_parts calls with nothing in between every part's current lies
\* within [minimum, maximum] of the currents before the first call.
C13_NoOvershoot ==
    AfterCall("equalize_all_parts") =>
        /\ \A n \in 1..Len(EqualizeCalls) : NoOvershoot(n)
        /\ bodyparts = EqualizeFirst(prev, Len(EqualizeCalls))
        /\ \A p \in BodyPart :
              /\ MinCurrent(first) <= bodyparts[p].current
              /\ bodyparts[p].current <= MaxCurrent(first)

\* C13 witness: a later equalize_all_parts call of a run that still moves
\* heat, with a part strictly inside the interval.
C13_Witness ==
    /\ AfterCall("equalize_all_parts")
    /\ prev # first
    /\ bodyparts # prev
    /\ \E p \in BodyPart :
          /\ MinCurrent(first) < bodyparts[p].current
          /\ bodyparts[p].current < MaxCurrent(first)

\* C14: with ETERNAL_SEASON off, the calendar built from Minute, Hour, Day,
\* Season and Year (each in its range) has, after sync(), exactly these as
\* its minute, hour, day, season and year.
C14_RoundTrip ==
    (calargs.constructed /\ ~options.ETERNAL_SEASON) =>
        /\ cal.minute = calargs.Minute
        /\ cal.hour = calargs.Hour
        /\ cal.day = calargs.Day
        /\ cal.season = calargs.Season
        /\ cal.year = calargs.Year

====
